---- MODULE Spec2Model ----
(***************************************************************************)
(* ghtopdep: the dependents fetcher (fetchDependents), the ranking         *)
(* pipeline (sortRepos) and the renderers (displayJSON, displayTable) of   *)
(* src/main.go, as one state machine driven by run.                        *)
(*                                                                         *)
(* Go strings that the program inspects character by character (the star   *)
(* and fork texts, the name) are sequences of one-character strings.       *)
(* A Go slice is a record [isNil, items]: a nil slice and an empty non-nil *)
(* slice have the same items and differ in isNil, as json.Marshal sees.    *)
(***************************************************************************)
EXTENDS Integers, Sequences, FiniteSets, TLC

VARIABLES
    listing,               \* the site: the pages of the dependents listing
    url,                   \* args[0]
    isPackages,            \* --packages
    isJSON,                \* --json
    rows,                  \* --rows
    minStar,               \* --minstar
    pc,                    \* position of the main goroutine
    pageURL,               \* fetchDependents: the URL of the next request
    inflight,              \* number of GET requests sent and not yet answered
    requests,              \* the URLs of the GET requests issued, in order
    doc,                   \* fetchDependents: the response body / parsed page
    repos,                 \* fetchDependents: the running collection; run: its result
    err,                   \* the error fetchDependents returned ("" is nil)
    pageCount,
    totalFetched,
    matchingStarCriteria,
    pw,                    \* the progress writer: "none", "rendering", "stopped"
    tracker,               \* the progress tracker [value, done]
    shown,                 \* the tracker value the renderer last drew
    sortedRepos,           \* run: the result of sortRepos
    stdout,                \* what the process printed, in order
    exitCode               \* -1 while the process runs

vars == <<listing, url, isPackages, isJSON, rows, minStar, pc, pageURL, inflight,
          requests, doc, repos, err, pageCount, totalFetched, matchingStarCriteria,
          pw, tracker, shown, sortedRepos, stdout, exitCode>>

inputs == <<listing, url, isPackages, isJSON, rows, minStar>>

----------------------------------------------------------------------------
(* Bounds of the model *)

MaxPages == 2          \* pages of a listing
MaxRowsPerPage == 2    \* dependents rows on one page
MaxRepos == 3          \* records handed to sortRepos in SpecRank
MaxRowLimit == 3       \* largest --rows tried in SpecRank (besides the default)
MaxTextLen == 3        \* length of the star text in SpecParse

(* Program constants *)

githubURL == "https://github.com"
DefaultRows == 10
DefaultMinStar == 5

----------------------------------------------------------------------------
(* Go slices *)

NilSlice == [isNil |-> TRUE, items |-> <<>>]

append(slice, x) == [isNil |-> FALSE, items |-> Append(slice.items, x)]

Range(s) == {s[i] : i \in DOMAIN s}

Count(s, x) == Cardinality({i \in DOMAIN s : s[i] = x})

----------------------------------------------------------------------------
(* strings.TrimSpace, strings.ReplaceAll, strconv.Atoi *)

IsSpace(c) == c \in {" ", "\t", "\n"}

RECURSIVE TrimLeft(_)
TrimLeft(s) ==
    IF s = <<>> THEN <<>>
    ELSE IF IsSpace(Head(s)) THEN TrimLeft(Tail(s)) ELSE s

RECURSIVE TrimRight(_)
TrimRight(s) ==
    IF s = <<>> THEN <<>>
    ELSE IF IsSpace(s[Len(s)]) THEN TrimRight(SubSeq(s, 1, Len(s) - 1)) ELSE s

TrimSpace(s) == TrimRight(TrimLeft(s))

\* strings.ReplaceAll(s, old, new) for a one-character old
RECURSIVE ReplaceAll(_, _, _)
ReplaceAll(s, old, new) ==
    IF s = <<>> THEN <<>>
    ELSE (IF Head(s) = old THEN new ELSE <<Head(s)>>) \o ReplaceAll(Tail(s), old, new)

DigitChars == <<"0", "1", "2", "3", "4", "5", "6", "7", "8", "9">>

IsDigit(c) == \E d \in DOMAIN DigitChars : DigitChars[d] = c

DigitOf(c) == (CHOOSE d \in DOMAIN DigitChars : DigitChars[d] = c) - 1

RECURSIVE ParseDigits(_, _)
ParseDigits(s, n) ==
    IF s = <<>> THEN n ELSE ParseDigits(Tail(s), n * 10 + DigitOf(Head(s)))

\* strconv.Atoi, the value it returns (the caller drops the error): an optional
\* sign, then decimal digits only; 0 on a syntax error.  Texts here are shorter
\* than the 19 characters from which the result can leave the int range.
Atoi(s) ==
    IF s = <<>> THEN 0
    ELSE LET signed == Head(s) \in {"+", "-"}
             digits == IF signed THEN Tail(s) ELSE s
         IN  IF digits = <<>> THEN 0
             ELSE IF \E i \in DOMAIN digits : ~IsDigit(digits[i]) THEN 0
             ELSE IF Head(s) = "-" THEN 0 - ParseDigits(digits, 0)
             ELSE ParseDigits(digits, 0)

\* strconv.Atoi(strings.ReplaceAll(strings.TrimSpace(text), ",", ""))
ParseCount(text) == Atoi(ReplaceAll(TrimSpace(text), ",", <<>>))

----------------------------------------------------------------------------
(* URLs and the site *)

NoURL == [base |-> "", path |-> "", dependent_type |-> "", dependents_after |-> 0]

\* fmt.Sprintf("%s/network/dependents?dependent_type=%s", url, dependentType)
FirstPageURL(u, isRepositories) ==
    [base |-> u, path |-> "/network/dependents",
     dependent_type |-> IF isRepositories THEN "REPOSITORY" ELSE "PACKAGE",
     dependents_after |-> 0]

\* the href of the "Next" link that leads to page i of the listing
NextHref(u, isRepositories, i) ==
    [FirstPageURL(u, isRepositories) EXCEPT !.dependents_after = i]

\* the page the site serves for a URL
ServerPage(u) == IF u.dependents_after = 0 THEN 1 ELSE u.dependents_after

NoDoc == [items |-> <<>>, hasNext |-> FALSE, nextHref |-> NoURL]

----------------------------------------------------------------------------
(* fetchDependents: one record per row *)

\* the body of the Each callback up to the append: the record built from a row
RowToRepo(row) ==
    [Name  |-> TrimSpace(row.name),
     URL   |-> <<githubURL, row.href>>,
     Stars |-> ParseCount(row.starsText),
     Forks |-> ParseCount(row.forksText)]

\* Each, had it skipped a row whose URL is already in the collection
RECURSIVE EachDedup(_, _, _)
EachDedup(items, acc, threshold) ==
    IF items = <<>> THEN acc
    ELSE LET repo == RowToRepo(Head(items))
         IN  IF \E i \in DOMAIN acc.repos.items : acc.repos.items[i].URL = repo.URL
             THEN EachDedup(Tail(items), acc, threshold)
             ELSE EachDedup(Tail(items),
                            [repos       |-> append(acc.repos, repo),
                             pageFetched |-> acc.pageFetched + 1,
                             matching    |-> IF repo.Stars >= threshold
                                             THEN acc.matching + 1 ELSE acc.matching],
                            threshold)

\* doc.Find(itemSelector).Each(...): acc is [repos, pageFetched, matching]
RECURSIVE Each(_, _, _)
Each(items, acc, threshold) ==
    IF items = <<>> THEN acc
    ELSE LET repo == RowToRepo(Head(items))
         IN  Each(Tail(items),
                  [repos       |-> append(acc.repos, repo),
                   pageFetched |-> acc.pageFetched + 1,
                   matching    |-> IF repo.Stars >= threshold
                                   THEN acc.matching + 1 ELSE acc.matching],
                  threshold)

\* ErrorReturn, had the error paths returned what was collected so far
ErrorReturnPartial(collected) == collected

\* what fetchDependents hands back as its collection when a page fails
ErrorReturn(collected) == NilSlice

----------------------------------------------------------------------------
(* sortRepos *)

\* less, had the comparison been written the other way round
lessAscending(a, b) == a.Stars < b.Stars

\* the comparison handed to sort.Slice
less(a, b) == a.Stars > b.Stars

\* s without the first occurrence of x
RemoveFirst(s, x) ==
    LET i == CHOOSE k \in DOMAIN s : s[k] = x /\ \A j \in 1..(k - 1) : s[j] # x
    IN  SubSeq(s, 1, i - 1) \o SubSeq(s, i + 1, Len(s))

\* SortSlice, had the sort been left out
SortSliceUnsorted(items) == {items}

\* sort.Slice(repos, less): some arrangement of the same records that is sorted
\* by less; sort.Slice is not stable, so the order of ties is any order.  Every
\* such arrangement starts with a record that no other record is less than and
\* goes on with a sorted arrangement of the others.
RECURSIVE SortSlice(_)
SortSlice(items) ==
    IF items = <<>> THEN {<<>>}
    ELSE LET firsts == {x \in Range(items) : \A y \in Range(items) : ~less(y, x)}
         IN  UNION {{<<x>> \o q : q \in SortSlice(RemoveFirst(items, x))} :
                      x \in firsts}

\* RangeLoop, had the threshold test been left out
RECURSIVE RangeLoopNoThreshold(_, _, _, _)
RangeLoopNoThreshold(rest, result, limit, threshold) ==
    IF rest = <<>> THEN result
    ELSE LET kept == append(result, Head(rest))
         IN  IF Len(kept.items) = limit THEN kept
             ELSE RangeLoopNoThreshold(Tail(rest), kept, limit, threshold)

\* the range loop of sortRepos over the sorted records
RECURSIVE RangeLoop(_, _, _, _)
RangeLoop(rest, result, limit, threshold) ==
    IF rest = <<>> THEN result
    ELSE LET kept == IF Head(rest).Stars >= threshold
                     THEN append(result, Head(rest)) ELSE result
         IN  IF Len(kept.items) = limit THEN kept
             ELSE RangeLoop(Tail(rest), kept, limit, threshold)

\* sortRepos(repos, rows, minStar): the outcomes, each the slice as sorted in
\* place and the result built from it
sortRepos(rs, limit, threshold) ==
    {[sorted |-> [rs EXCEPT !.items = q],
      result |-> RangeLoop(q, NilSlice, limit, threshold)] : q \in SortSlice(rs.items)}

----------------------------------------------------------------------------
(* Renderers *)

\* json.MarshalIndent of a []Repo: a nil slice encodes as null, any other as an
\* array of objects keyed by the struct tags
MarshalIndent(slice) ==
    IF slice.isNil THEN [kind |-> "null", elems |-> <<>>]
    ELSE [kind  |-> "array",
          elems |-> [i \in 1..Len(slice.items) |->
                        [name  |-> slice.items[i].Name,
                         url   |-> slice.items[i].URL,
                         stars |-> slice.items[i].Stars,
                         forks |-> slice.items[i].Forks]]]

\* the table displayTable renders: the header and one row per record
RenderTable(slice) ==
    [header |-> <<"Name", "URL", "Stars", "Forks">>,
     body   |-> [i \in 1..Len(slice.items) |->
                    <<slice.items[i].Name, slice.items[i].URL,
                      slice.items[i].Stars, slice.items[i].Forks>>]]

----------------------------------------------------------------------------
(* The site and the command line *)

RowA == [name |-> <<" ", "a", " ">>, href |-> "/o/a",
         starsText |-> <<"5", "0">>, forksText |-> <<"1", ",", "2">>]

RowB == [name |-> <<"b">>, href |-> "/o/b",
         starsText |-> <<"N", "/", "A">>, forksText |-> <<>>]

RowPool == {RowA, RowB}

RowSeqs == UNION {[1..k -> RowPool] : k \in 0..MaxRowsPerPage}

\* a listing of n pages: every page but the last carries a "Next" link to the
\* following page
Listings(u, isRepositories) ==
    UNION {{[i \in 1..n |->
                [items    |-> its[i],
                 hasNext  |-> i < n,
                 nextHref |-> IF i < n THEN NextHref(u, isRepositories, i + 1)
                              ELSE NoURL]] : its \in [1..n -> RowSeqs]}
           : n \in 1..MaxPages}

RepoURL == "https://github.com/o/r"

Idle ==
    /\ pc = "run"
    /\ pageURL = NoURL
    /\ inflight = 0
    /\ requests = <<>>
    /\ doc = NoDoc
    /\ repos = NilSlice
    /\ err = ""
    /\ pageCount = 0
    /\ totalFetched = 0
    /\ matchingStarCriteria = 0
    /\ pw = "none"
    /\ tracker = [value |-> 0, done |-> FALSE]
    /\ shown = 0
    /\ sortedRepos = NilSlice
    /\ stdout = <<>>
    /\ exitCode = -1

Init ==
    /\ url = RepoURL
    /\ isPackages \in BOOLEAN
    /\ isJSON \in BOOLEAN
    /\ rows = DefaultRows
    /\ minStar = DefaultMinStar
    /\ listing \in Listings(url, ~isPackages)
    /\ Idle

----------------------------------------------------------------------------
(* run and fetchDependents *)

\* run calls fetchDependents(url, !isPackages), which builds the first URL and
\* starts the progress writer before the loop
Start ==
    /\ pc = "run"
    /\ pageURL' = FirstPageURL(url, ~isPackages)
    /\ repos' = NilSlice
    /\ pageCount' = 0
    /\ totalFetched' = 0
    /\ matchingStarCriteria' = 0
    /\ pw' = "rendering"
    /\ tracker' = [value |-> 0, done |-> FALSE]
    /\ pc' = "get"
    /\ UNCHANGED <<inputs, inflight, requests, doc, err, shown, sortedRepos,
                   stdout, exitCode>>

\* http.Get(pageURL) is called and blocks
HttpGet ==
    /\ pc = "get"
    /\ requests' = Append(requests, pageURL)
    /\ inflight' = inflight + 1
    /\ pc' = "await"
    /\ UNCHANGED <<inputs, pageURL, doc, repos, err, pageCount, totalFetched,
                   matchingStarCriteria, pw, tracker, shown, sortedRepos, stdout,
                   exitCode>>

\* http.Get returns a response
HttpOK ==
    /\ pc = "await"
    /\ inflight' = inflight - 1
    /\ doc' = listing[ServerPage(pageURL)]
    /\ pc' = "parse"
    /\ UNCHANGED <<inputs, pageURL, requests, repos, err, pageCount, totalFetched,
                   matchingStarCriteria, pw, tracker, shown, sortedRepos, stdout,
                   exitCode>>

\* http.Get returns an error: return nil, fmt.Errorf("failed to fetch page ...")
HttpErr ==
    /\ pc = "await"
    /\ inflight' = inflight - 1
    /\ repos' = ErrorReturn(repos)
    /\ err' = "failed to fetch page"
    /\ pc' = "returned"
    /\ UNCHANGED <<inputs, pageURL, requests, doc, pageCount, totalFetched,
                   matchingStarCriteria, pw, tracker, shown, sortedRepos, stdout,
                   exitCode>>

\* goquery.NewDocumentFromReader returns the document
ParseOK ==
    /\ pc = "parse"
    /\ pc' = "page"
    /\ UNCHANGED <<inputs, pageURL, inflight, requests, doc, repos, err, pageCount,
                   totalFetched, matchingStarCriteria, pw, tracker, shown,
                   sortedRepos, stdout, exitCode>>

\* goquery.NewDocumentFromReader returns an error:
\* return nil, fmt.Errorf("failed to parse page ...")
ParseErr ==
    /\ pc = "parse"
    /\ repos' = ErrorReturn(repos)
    /\ err' = "failed to parse page"
    /\ pc' = "returned"
    /\ UNCHANGED <<inputs, pageURL, inflight, requests, doc, pageCount,
                   totalFetched, matchingStarCriteria, pw, tracker, shown,
                   sortedRepos, stdout, exitCode>>

\* IsLastPage, had the loop stopped after every page
IsLastPageAlways(d) == TRUE

\* the loop's test for the last page: nextPage.Length() == 0
IsLastPage(d) == ~d.hasNext

\* the rest of the loop body: the rows of the page, the counters, the status
\* line, and the "Next" link
ProcessPage ==
    /\ pc = "page"
    /\ LET acc == Each(doc.items,
                       [repos |-> repos, pageFetched |-> 0,
                        matching |-> matchingStarCriteria],
                       minStar)
       IN  /\ pageCount' = pageCount + 1
           /\ repos' = acc.repos
           /\ matchingStarCriteria' = acc.matching
           /\ totalFetched' = totalFetched + acc.pageFetched
           /\ tracker' = [tracker EXCEPT !.value = totalFetched + acc.pageFetched]
           /\ stdout' = Append(stdout,
                               [kind |-> "status",
                                body |-> <<pageCount + 1,
                                           totalFetched + acc.pageFetched,
                                           acc.matching>>])
    /\ IF IsLastPage(doc)
       THEN pc' = "done" /\ pageURL' = pageURL
       ELSE pc' = "get" /\ pageURL' = doc.nextHref
    /\ UNCHANGED <<inputs, inflight, requests, doc, err, pw, shown, sortedRepos,
                   exitCode>>

\* after the loop: tracker.MarkAsDone(), pw.Stop(), the two summary lines,
\* return repos, nil
Finish ==
    /\ pc = "done"
    /\ tracker' = [tracker EXCEPT !.done = TRUE]
    /\ pw' = "stopped"
    /\ stdout' = Append(stdout,
                        [kind |-> "summary",
                         body |-> <<totalFetched, minStar, matchingStarCriteria>>])
    /\ err' = ""
    /\ pc' = "returned"
    /\ UNCHANGED <<inputs, pageURL, inflight, requests, doc, repos, pageCount,
                   totalFetched, matchingStarCriteria, shown, sortedRepos, exitCode>>

\* the goroutine started by go pw.Render() draws the tracker while the writer
\* is rendering and the process lives
Render ==
    /\ pw = "rendering"
    /\ exitCode = -1
    /\ shown # tracker.value
    /\ shown' = tracker.value
    /\ UNCHANGED <<inputs, pc, pageURL, inflight, requests, doc, repos, err,
                   pageCount, totalFetched, matchingStarCriteria, pw, tracker,
                   sortedRepos, stdout, exitCode>>

\* run: err != nil: print the error, os.Exit(1)
RunErr ==
    /\ pc = "returned"
    /\ err # ""
    /\ stdout' = Append(stdout, [kind |-> "error", body |-> err])
    /\ exitCode' = 1
    /\ pc' = "exited"
    /\ UNCHANGED <<inputs, pageURL, inflight, requests, doc, repos, err, pageCount,
                   totalFetched, matchingStarCriteria, pw, tracker, shown,
                   sortedRepos>>

\* run: sortedRepos := sortRepos(repos, rows, minStar); repos is sorted in place
Rank ==
    /\ pc = "returned"
    /\ err = ""
    /\ \E out \in sortRepos(repos, rows, minStar) :
          /\ repos' = out.sorted
          /\ sortedRepos' = out.result
    /\ pc' = "display"
    /\ UNCHANGED <<inputs, pageURL, inflight, requests, doc, err, pageCount,
                   totalFetched, matchingStarCriteria, pw, tracker, shown, stdout,
                   exitCode>>

\* run: isJSON: displayJSON(sortedRepos)
DisplayJSON ==
    /\ pc = "display"
    /\ isJSON
    /\ stdout' = Append(stdout, [kind |-> "json", body |-> MarshalIndent(sortedRepos)])
    /\ pc' = "main"
    /\ UNCHANGED <<inputs, pageURL, inflight, requests, doc, repos, err, pageCount,
                   totalFetched, matchingStarCriteria, pw, tracker, shown,
                   sortedRepos, exitCode>>

\* run: otherwise displayTable(sortedRepos)
DisplayTable ==
    /\ pc = "display"
    /\ ~isJSON
    /\ stdout' = Append(stdout, [kind |-> "table", body |-> RenderTable(sortedRepos)])
    /\ pc' = "main"
    /\ UNCHANGED <<inputs, pageURL, inflight, requests, doc, repos, err, pageCount,
                   totalFetched, matchingStarCriteria, pw, tracker, shown,
                   sortedRepos, exitCode>>

\* main: rootCmd.Execute() returned nil, main returns
Exit ==
    /\ pc = "main"
    /\ exitCode' = 0
    /\ pc' = "exited"
    /\ UNCHANGED <<inputs, pageURL, inflight, requests, doc, repos, err, pageCount,
                   totalFetched, matchingStarCriteria, pw, tracker, shown,
                   sortedRepos, stdout>>

Next ==
    \/ Start
    \/ HttpGet
    \/ HttpOK
    \/ HttpErr
    \/ ParseOK
    \/ ParseErr
    \/ ProcessPage
    \/ Finish
    \/ Render
    \/ RunErr
    \/ Rank
    \/ DisplayJSON
    \/ DisplayTable
    \/ Exit

Spec == Init /\ [][Next]_vars

----------------------------------------------------------------------------
(* sortRepos alone: any collection fetchDependents can return, any flags *)

StarValues == {5, 50, 200}

RepoPool ==
    {[Name |-> <<n>>, URL |-> <<githubURL, n>>, Stars |-> st, Forks |-> 0] :
        n \in {"a", "b"}, st \in StarValues}

RowLimits == (-1..MaxRowLimit) \cup {DefaultRows}

MinStars == {0, DefaultMinStar, 10, 100}

\* the slice fetchDependents builds by appending these records to a nil slice
SliceOf(items) == IF items = <<>> THEN NilSlice ELSE [isNil |-> FALSE, items |-> items]

InitRank ==
    /\ url = RepoURL
    /\ isPackages = FALSE
    /\ isJSON = FALSE
    /\ rows \in RowLimits
    /\ minStar \in MinStars
    /\ listing = <<>>
    /\ pc = "returned"
    /\ pageURL = NoURL
    /\ inflight = 0
    /\ requests = <<>>
    /\ doc = NoDoc
    /\ repos \in {SliceOf(items) :
                    items \in UNION {[1..k -> RepoPool] : k \in 0..MaxRepos}}
    /\ err = ""
    /\ pageCount = 0
    /\ totalFetched = 0
    /\ matchingStarCriteria = 0
    /\ pw = "stopped"
    /\ tracker = [value |-> 0, done |-> TRUE]
    /\ shown = 0
    /\ sortedRepos = NilSlice
    /\ stdout = <<>>
    /\ exitCode = -1

NextRank == Rank

SpecRank == InitRank /\ [][NextRank]_vars

----------------------------------------------------------------------------
(* the extraction of one page alone: any star text, a few fork texts *)

TextAlphabet == {"1", "2", ",", " ", "-", "N"}

Texts == UNION {[1..k -> TextAlphabet] : k \in 0..MaxTextLen}

SampleTexts ==
    {<<"1", ",", "2", "3", "4">>, <<>>, <<"N", "/", "A">>, <<"-", "5">>,
     <<" ", "7", " ">>, <<"+", "3">>}

InitParse ==
    /\ url = RepoURL
    /\ isPackages = FALSE
    /\ isJSON = FALSE
    /\ rows = DefaultRows
    /\ minStar = DefaultMinStar
    /\ \E st \in Texts \cup SampleTexts, ft \in SampleTexts :
          listing = <<[items    |-> <<[name |-> <<"a">>, href |-> "/o/a",
                                       starsText |-> st, forksText |-> ft]>>,
                       hasNext  |-> FALSE,
                       nextHref |-> NoURL]>>
    /\ pc = "page"
    /\ pageURL = FirstPageURL(url, ~isPackages)
    /\ inflight = 0
    /\ requests = <<FirstPageURL(url, ~isPackages)>>
    /\ doc = listing[1]
    /\ repos = NilSlice
    /\ err = ""
    /\ pageCount = 0
    /\ totalFetched = 0
    /\ matchingStarCriteria = 0
    /\ pw = "rendering"
    /\ tracker = [value |-> 0, done |-> FALSE]
    /\ shown = 0
    /\ sortedRepos = NilSlice
    /\ stdout = <<>>
    /\ exitCode = -1

NextParse == ProcessPage

SpecParse == InitParse /\ [][NextParse]_vars

----------------------------------------------------------------------------
(* Properties of sortRepos, under SpecRank *)

Ranked == pc = "display"

Max(a, b) == IF a >= b THEN a ELSE b

Qualifying(items) == {i \in DOMAIN items : items[i].Stars >= minStar}

\* the records of the input that the result leaves out, as indices of the
\* (sorted) input: the result is the first Len(result) qualifying records
IsSubBag(small, big) == \A x \in Range(small) : Count(small, x) <= Count(big, x)

Omitted(x) == Count(repos.items, x) > Count(sortedRepos.items, x)

StarsOf(items) == [i \in DOMAIN items |-> items[i].Stars]

\* C1: sortRepos returns at most max(rows, 0) records, for every collection,
\* every rows (0 and negative included) and every minStar; with rows <= 0 the
\* result is empty.
C1_AtMostRowLimit ==
    Ranked => Len(sortedRepos.items) <= Max(rows, 0)

\* C2: sortRepos keeps the highest-starred qualifying records: with fewer than
\* rows qualifying records all of them are returned; otherwise the result is
\* full and no omitted qualifying record has strictly more stars than a
\* returned one; stars [50, 5, 200] with rows 2 and minStar 10 give [200, 50].
C2_KeepsTopQualifying ==
    Ranked =>
        LET q == Cardinality(Qualifying(repos.items))
        IN  /\ q < rows => Len(sortedRepos.items) = q
            /\ (rows > 0 /\ q >= rows) => Len(sortedRepos.items) = rows
            /\ q >= rows =>
                  \A o \in Range(repos.items), r \in Range(sortedRepos.items) :
                      (Omitted(o) /\ o.Stars >= minStar) => o.Stars <= r.Stars
            /\ ( /\ Len(repos.items) = 3
                 /\ Range(StarsOf(repos.items)) = {50, 5, 200}
                 /\ rows = 2
                 /\ minStar = 10 ) => StarsOf(sortedRepos.items) = <<200, 50>>

C2_Witness ==
    /\ Ranked
    /\ Len(repos.items) = 3
    /\ Range(StarsOf(repos.items)) = {50, 5, 200}
    /\ rows = 2
    /\ minStar = 10
    /\ StarsOf(sortedRepos.items) = <<200, 50>>

\* C3: every record sortRepos returns has stars >= minStar and is one of the
\* input records; if no input record meets minStar the result is empty.
C3_ResultMeetsThreshold ==
    Ranked =>
        /\ \A i \in DOMAIN sortedRepos.items : sortedRepos.items[i].Stars >= minStar
        /\ IsSubBag(sortedRepos.items, repos.items)
        /\ Qualifying(repos.items) = {} => sortedRepos.items = <<>>

C3_Witness ==
    /\ Ranked
    /\ Len(sortedRepos.items) = 2
    /\ Cardinality(Qualifying(repos.items)) < Len(repos.items)
    /\ rows > 2

\* C4: the output of sortRepos is ordered by stars descending: of two returned
\* records the earlier has at least as many stars as the later.
C4_ResultDescending ==
    Ranked =>
        \A i, j \in DOMAIN sortedRepos.items :
            i < j => sortedRepos.items[i].Stars >= sortedRepos.items[j].Stars

C4_Witness ==
    /\ Ranked
    /\ Len(sortedRepos.items) = 3
    /\ sortedRepos.items[1].Stars > sortedRepos.items[2].Stars
    /\ sortedRepos.items[2].Stars > sortedRepos.items[3].Stars

----------------------------------------------------------------------------
(* Properties of the run, under Spec *)

\* fetchDependents has returned without an error and run has not yet sorted
\* the collection in place
FetchedOK == pc \in {"done", "returned"} /\ err = ""

\* the walk ended without an error
WalkedOK == pc \in {"done", "returned", "display", "main", "exited"} /\ err = ""

RECURSIVE AllRows(_)
AllRows(pages) ==
    IF pages = <<>> THEN <<>> ELSE Head(pages).items \o AllRows(Tail(pages))

\* C5: on a chain of n pages whose requests all succeed, fetchDependents
\* issues exactly n GET requests, one per page in chain order, never two at
\* once, the first to {url}/network/dependents?dependent_type=..., and stops
\* right after the first page without a "Next" link.
C5_PaginationWalk ==
    /\ inflight <= 1
    /\ \A i \in DOMAIN requests :
          /\ ServerPage(requests[i]) = i
          /\ i < Len(requests) => listing[i].hasNext
    /\ requests # <<>> =>
          requests[1] = [base |-> url, path |-> "/network/dependents",
                         dependent_type |-> IF isPackages THEN "PACKAGE"
                                            ELSE "REPOSITORY",
                         dependents_after |-> 0]
    /\ WalkedOK =>
          /\ Len(requests) = Len(listing)
          /\ ~listing[Len(requests)].hasNext

C5_Witness ==
    /\ WalkedOK
    /\ pc = "returned"
    /\ Len(listing) = 2
    /\ Len(requests) = 2

\* C6: on a successful walk the collection fetchDependents returns is the rows
\* of all pages, one record per row, in page order and row order, duplicates
\* kept; pages without rows give an empty collection and no error.
C6_AllRowsInOrder ==
    FetchedOK =>
        /\ Len(repos.items) = Len(AllRows(listing))
        /\ \A i \in DOMAIN repos.items :
              /\ repos.items[i].URL = <<githubURL, AllRows(listing)[i].href>>
              /\ repos.items[i] = RowToRepo(AllRows(listing)[i])
        /\ AllRows(listing) = <<>> => repos.items = <<>>

C6_Witness ==
    /\ FetchedOK
    /\ pc = "returned"
    /\ Len(listing) = 2
    /\ listing[1].items # <<>>
    /\ listing[2].items = listing[1].items
    /\ Len(repos.items) = 2 * Len(listing[1].items)

Printed(kind) == \E i \in DOMAIN stdout : stdout[i].kind = kind

\* C7: if a GET or a parse fails on any page, fetchDependents returns an error
\* and no records, no request is repeated, and run prints the error and exits
\* with code 1 without ranking or rendering; when no page fails the process
\* exits with code 0.
C7_FailureAborts ==
    /\ err # "" =>
          /\ pc \in {"returned", "exited"}
          /\ repos = NilSlice
          /\ sortedRepos = NilSlice
          /\ ~Printed("json") /\ ~Printed("table")
          /\ inflight = 0
    /\ \A i, j \in DOMAIN requests : requests[i] = requests[j] => i = j
    /\ pc = "exited" =>
          /\ exitCode = IF err # "" THEN 1 ELSE 0
          /\ err # "" => Printed("error")
          /\ err = "" => ~Printed("error") /\ (Printed("json") \/ Printed("table"))
    /\ pc # "exited" => exitCode = -1

C7_Witness ==
    /\ pc = "exited"
    /\ err # ""
    /\ exitCode = 1
    /\ Len(requests) = 2
    /\ totalFetched > 0

\* C9: with --json the ranked sequence is always printed as a JSON array of
\* objects, the empty result included, which is printed as an empty array.
C9_JSONIsArray ==
    \A i \in DOMAIN stdout :
        stdout[i].kind = "json" =>
            /\ stdout[i].body.kind = "array"
            /\ Len(stdout[i].body.elems) = Len(sortedRepos.items)

\* C10: the progress renderer started before the loop is stopped on every way
\* fetchDependents returns, after a successful walk and after a failed page.
C10_RendererStoppedOnReturn ==
    pc = "returned" => pw = "stopped"

----------------------------------------------------------------------------
(* Properties of the row extraction, under SpecParse *)

\* C8: every record appended has stars >= 0 and forks >= 0 whatever the star
\* and fork texts are; text that is not a valid count gives 0 and the row is
\* still included.
C8_CountsNonNegative ==
    pc # "page" =>
        /\ Len(repos.items) = Len(listing[1].items)
        /\ \A i \in DOMAIN repos.items :
              repos.items[i].Stars >= 0 /\ repos.items[i].Forks >= 0

====
